---- MODULE Spec2Model ----
(***************************************************************************)
(* The streaming-value runtime of the PPR workshop: the Streamable type,   *)
(* the promise cache, useStreamable, the UseStreamable component and the   *)
(* Stream boundary, rendered by a single-threaded cooperative scheduler.   *)
(***************************************************************************)
EXTENDS Integers, Sequences, FiniteSets, TLC

\* ---------------------------------------------------------------- bounds
MaxPromises == 2
MaxLen == 1

\* ------------------------------------------------------------- universes
PromiseIds == 1..MaxPromises
NoPromise == 0
Keys == {"products", "reviews"}
Boundaries == {"A", "B"}
Errors == {"E1", "E2"}
NoError == "none"
\* a product list of n products, the products named 1..n
Values == { [i \in 1..n |-> i] : n \in 0..MaxLen }

\* Streamable<T> = T | Promise<T>
SyncValue(v) == [tag |-> "value", val |-> v, p |-> NoPromise]
PromiseValue(p) == [tag |-> "promise", val |-> <<>>, p |-> p]
NoProps == [tag |-> "none", val |-> <<>>, p |-> NoPromise]
Streamable == {SyncValue(v) : v \in Values} \cup {PromiseValue(p) : p \in PromiseIds}

\* the native state of a promise object
NotCreated == [state |-> "none", val |-> <<>>, err |-> NoError]
Pending == [state |-> "pending", val |-> <<>>, err |-> NoError]
Fulfilled(v) == [state |-> "fulfilled", val |-> v, err |-> NoError]
Rejected(e) == [state |-> "rejected", val |-> <<>>, err |-> e]

\* what a boundary has on screen
NoView == [shown |-> "none", cards |-> <<>>, err |-> NoError]
ProductListSkeleton == [shown |-> "fallback", cards |-> <<>>, err |-> NoError]
ProductListEmptyState == [shown |-> "empty", cards |-> <<>>, err |-> NoError]
ProductGrid(productsData) == [shown |-> "grid", cards |-> productsData, err |-> NoError]
ErrorView(e) == [shown |-> "error", cards |-> <<>>, err |-> e]

NoCall ==
  [kind |-> "none", b |-> "A", key |-> "products", arg |-> NoProps, retry |-> FALSE,
   used |-> NoPromise, val |-> <<>>, err |-> NoError]

VARIABLES
  promiseCache,   \* key -> the cached promise, NoPromise when the Map has no entry
  settled,        \* promise -> its native state
  status,         \* promise -> the status the renderer has tracked for it
  props,          \* boundary -> the value prop of its Stream
  queryKey,       \* boundary -> the queryKey prop of its Stream
  display,        \* boundary -> what it shows
  suspendedOn,    \* boundary -> the promise its suspended render waits for
  firstTime,      \* key -> number of "first time using streamable" log lines
  wraps,          \* key -> number of promises Promise.resolve allocated for it
  lookup,         \* key -> the promise its latest cache lookup handed to use
  call            \* the useStreamable call of the latest step, NoCall if none

vars ==
  <<promiseCache, settled, status, props, queryKey, display, suspendedOn,
    firstTime, wraps, lookup, call>>

\* ------------------------------------------------------------ the runtime

isPromise(value) == value.tag = "promise"

FreeIds(heap) == {p \in PromiseIds : heap[p].state = "none"}

NextId(heap) == CHOOSE n \in FreeIds(heap) : \A m \in FreeIds(heap) : n <= m

\* Promise.resolve(x): x itself when x is a promise, else a new promise that is
\* already fulfilled with x. p is NoPromise when no promise id is left.
PromiseResolve(x, heap) ==
  IF isPromise(x) THEN [p |-> x.p, heap |-> heap, fresh |-> FALSE]
  ELSE IF FreeIds(heap) = {} THEN [p |-> NoPromise, heap |-> heap, fresh |-> FALSE]
  ELSE [p |-> NextId(heap),
        heap |-> [heap EXCEPT ![NextId(heap)] = Fulfilled(x.val)],
        fresh |-> TRUE]

\* use(promise): the value of a promise the renderer has seen fulfil, the error
\* of one it has seen reject; any other promise is tracked and the render
\* suspends on it.
use(promise, heap, stat) ==
  CASE stat[promise] = "fulfilled" ->
         [kind |-> "return", val |-> heap[promise].val, err |-> NoError, status |-> stat]
    [] stat[promise] = "rejected" ->
         [kind |-> "throw", val |-> <<>>, err |-> heap[promise].err, status |-> stat]
    [] OTHER ->
         [kind |-> "suspend", val |-> <<>>, err |-> NoError,
          status |-> [stat EXCEPT ![promise] = "pending"]]

\* The outcome of a resolver call and the store it leaves behind.
Outcome(u, used, cache, heap, ft, wr, lk) ==
  [ok |-> TRUE, kind |-> u.kind, val |-> u.val, err |-> u.err, used |-> used,
   cache |-> cache, settled |-> heap, status |-> u.status,
   firstTime |-> ft, wraps |-> wr, lookup |-> lk]

Returned(v) ==
  [ok |-> TRUE, kind |-> "return", val |-> v, err |-> NoError, used |-> NoPromise,
   cache |-> promiseCache, settled |-> settled, status |-> status,
   firstTime |-> firstTime, wraps |-> wraps, lookup |-> lookup]

OutOfIds ==
  [ok |-> FALSE, kind |-> "none", val |-> <<>>, err |-> NoError, used |-> NoPromise,
   cache |-> promiseCache, settled |-> settled, status |-> status,
   firstTime |-> firstTime, wraps |-> wraps, lookup |-> lookup]

\* if (!promiseCache.has(key)) promiseCache.set(key, Promise.resolve(streamable));
\* return use(promiseCache.get(key))
CachedUse(streamable, key) ==
  LET has == promiseCache[key] # NoPromise
      w == IF has THEN [p |-> promiseCache[key], heap |-> settled, fresh |-> FALSE]
           ELSE PromiseResolve(streamable, settled)
      cache2 == IF has THEN promiseCache ELSE [promiseCache EXCEPT ![key] = w.p]
      ft2 == IF has THEN firstTime ELSE [firstTime EXCEPT ![key] = @ + 1]
      wr2 == IF w.fresh THEN [wraps EXCEPT ![key] = @ + 1] ELSE wraps
  IN  IF w.p = NoPromise THEN OutOfIds
      ELSE Outcome(use(cache2[key], w.heap, status), cache2[key], cache2, w.heap,
                   ft2, wr2, [lookup EXCEPT ![key] = cache2[key]])

\* return use(Promise.resolve(streamable)), no cache
UncachedUse(streamable, key) ==
  LET w == PromiseResolve(streamable, settled)
      wr2 == IF w.fresh THEN [wraps EXCEPT ![key] = @ + 1] ELSE wraps
  IN  IF w.p = NoPromise THEN OutOfIds
      ELSE Outcome(use(w.p, w.heap, status), w.p, promiseCache, w.heap,
                   firstTime, wr2, lookup)

\* variants of useStreamable with one plausible slip each
useStreamable_NoFastPath(streamable, key) == CachedUse(streamable, key)

useStreamable_WrapEveryCall(streamable, key) == UncachedUse(streamable, key)

useStreamable_NoCache(streamable, key) ==
  IF ~isPromise(streamable) THEN Returned(streamable.val)
  ELSE Outcome(use(streamable.p, settled, status), streamable.p, promiseCache,
               settled, firstTime, wraps, [lookup EXCEPT ![key] = streamable.p])

useStreamable_SingleSlot(streamable, key) ==
  IF ~isPromise(streamable) THEN Returned(streamable.val)
  ELSE LET slot == "products"
           r == CachedUse(streamable, slot)
       IN  [r EXCEPT !.lookup = [lookup EXCEPT ![key] = r.used]]

useStreamable_RetryRejected(streamable, key) ==
  IF ~isPromise(streamable) THEN Returned(streamable.val)
  ELSE IF promiseCache[key] # NoPromise /\ status[promiseCache[key]] = "rejected"
       THEN Outcome(use(streamable.p, settled, status), streamable.p,
                    [promiseCache EXCEPT ![key] = streamable.p], settled,
                    [firstTime EXCEPT ![key] = @ + 1], wraps,
                    [lookup EXCEPT ![key] = streamable.p])
       ELSE CachedUse(streamable, key)

useStreamable_OverwriteEntry(streamable, key) ==
  IF ~isPromise(streamable) THEN Returned(streamable.val)
  ELSE Outcome(use(streamable.p, settled, status), streamable.p,
               [promiseCache EXCEPT ![key] = streamable.p], settled,
               [firstTime EXCEPT ![key] = @ + 1], wraps,
               [lookup EXCEPT ![key] = streamable.p])

\* export function useStreamable<T>(streamable: Streamable<T>, key: string): T
useStreamable(streamable, key) ==
  IF ~isPromise(streamable) THEN Returned(streamable.val)
  ELSE CachedUse(streamable, key)

useStreamableUncached_Cached(streamable, key) == useStreamable(streamable, key)

\* the variant of the "Tricky Performance Issue" section: no key, no cache
useStreamableUncached(streamable, key) == UncachedUse(streamable, key)

\* ---------------------------------------------------------- the components

\* the render function without its empty-state branch
ProductListChildren_NoEmptyState(productsData) == ProductGrid(productsData)

\* the render function ProductList passes to Stream as children
ProductListChildren(productsData) ==
  IF Len(productsData) = 0 THEN ProductListEmptyState ELSE ProductGrid(productsData)

\* function UseStreamable: children(useStreamable(value, queryKey))
UseStreamable(value, key, cached) ==
  LET r == IF cached THEN useStreamable(value, key) ELSE useStreamableUncached(value, key)
  IN  [r EXCEPT !.val = IF r.kind = "return" THEN r.val ELSE <<>>]

\* Stream without a Suspense of its own: the suspension reaches the boundary
\* above, whose fallback replaces every mounted sibling.
Stream_NoSuspense(b, r, shown) ==
  CASE r.kind = "return" -> [shown EXCEPT ![b] = ProductListChildren(r.val)]
    [] r.kind = "suspend" ->
         [x \in Boundaries |->
            IF x = b \/ shown[x].shown # "none" THEN ProductListSkeleton ELSE shown[x]]
    [] OTHER -> [shown EXCEPT ![b] = ErrorView(r.err)]

\* <Suspense fallback={fallback}><UseStreamable .../></Suspense>: what the
\* boundaries show after boundary b rendered with outcome r. A thrown error
\* leaves Stream and is shown by the error boundary around it.
Stream(b, r, shown) ==
  CASE r.kind = "return" -> [shown EXCEPT ![b] = ProductListChildren(r.val)]
    [] r.kind = "suspend" -> [shown EXCEPT ![b] = ProductListSkeleton]
    [] OTHER -> [shown EXCEPT ![b] = ErrorView(r.err)]

\* One render attempt of boundary b with the given value prop. created is the
\* promise the page made for this render (NoPromise when it made none).
Render(b, value, retry, cached, created) ==
  LET key == queryKey[b]
      r == UseStreamable(value, key, cached)
  IN  /\ r.ok
      /\ promiseCache' = r.cache
      /\ settled' = IF created = NoPromise THEN r.settled
                    ELSE [r.settled EXCEPT ![created] = Pending]
      /\ status' = r.status
      /\ firstTime' = r.firstTime
      /\ wraps' = r.wraps
      /\ lookup' = r.lookup
      /\ props' = [props EXCEPT ![b] = value]
      /\ display' = Stream(b, r, display)
      /\ suspendedOn' = [suspendedOn EXCEPT ![b] =
                           IF r.kind = "suspend" THEN r.used ELSE NoPromise]
      /\ call' = [kind |-> r.kind, b |-> b, key |-> key, arg |-> value,
                  retry |-> retry, used |-> r.used, val |-> r.val, err |-> r.err]
      /\ UNCHANGED queryKey

\* the page passes synchronous data: <ProductList products={defaultProducts} .../>
HomeSync(b, v, cached) == Render(b, SyncValue(v), FALSE, cached, NoPromise)

\* the page starts a new fetch and passes its promise
HomeFetch(b, cached) ==
  /\ FreeIds(settled) # {}
  /\ Render(b, PromiseValue(NextId(settled)), FALSE, cached, NextId(settled))

\* the page renders again and passes the promise it passed before
Rerender(b, cached) ==
  /\ isPromise(props[b])
  /\ Render(b, props[b], FALSE, cached, NoPromise)

\* a retry that fires on a timer, whether or not the promise has settled
Retry_Timeout(b, cached) ==
  /\ suspendedOn[b] # NoPromise
  /\ Render(b, props[b], TRUE, cached, NoPromise)

\* the renderer retries a suspended boundary once the promise it waits for
\* has settled
Retry(b, cached) ==
  /\ suspendedOn[b] # NoPromise
  /\ status[suspendedOn[b]] \in {"fulfilled", "rejected"}
  /\ Render(b, props[b], TRUE, cached, NoPromise)

\* the fetch behind promise p completes; the listener the renderer attached to
\* a tracked promise runs in the same turn and records the outcome
Settle(p, outcome) ==
  /\ settled[p].state = "pending"
  /\ settled' = [settled EXCEPT ![p] = outcome]
  /\ status' = IF status[p] = "pending" THEN [status EXCEPT ![p] = outcome.state]
               ELSE status
  /\ call' = NoCall
  /\ UNCHANGED <<promiseCache, props, queryKey, display, suspendedOn,
                 firstTime, wraps, lookup>>

\* a promise that had settled before the renderer first saw it: the listener
\* attached by use runs after the render that suspended on it
Notify(p) ==
  /\ status[p] = "pending"
  /\ settled[p].state \in {"fulfilled", "rejected"}
  /\ status' = [status EXCEPT ![p] = settled[p].state]
  /\ call' = NoCall
  /\ UNCHANGED <<promiseCache, settled, props, queryKey, display, suspendedOn,
                 firstTime, wraps, lookup>>

Outcomes == {Fulfilled(v) : v \in Values} \cup {Rejected(e) : e \in Errors}

Init ==
  /\ promiseCache = [k \in Keys |-> NoPromise]
  /\ settled = [p \in PromiseIds |-> NotCreated]
  /\ status = [p \in PromiseIds |-> "untracked"]
  /\ props = [b \in Boundaries |-> NoProps]
  /\ queryKey \in {q \in [Boundaries -> Keys] : q["A"] = "products"}
  /\ display = [b \in Boundaries |-> NoView]
  /\ suspendedOn = [b \in Boundaries |-> NoPromise]
  /\ firstTime = [k \in Keys |-> 0]
  /\ wraps = [k \in Keys |-> 0]
  /\ lookup = [k \in Keys |-> NoPromise]
  /\ call = NoCall

Next ==
  \/ \E b \in Boundaries, v \in Values : HomeSync(b, v, TRUE)
  \/ \E b \in Boundaries : HomeFetch(b, TRUE)
  \/ \E b \in Boundaries : Rerender(b, TRUE)
  \/ \E b \in Boundaries : Retry(b, TRUE)
  \/ \E p \in PromiseIds, o \in Outcomes : Settle(p, o)

Spec == Init /\ [][Next]_vars

\* the same page over the uncached variant of useStreamable
NextUncached ==
  \/ \E b \in Boundaries, v \in Values : HomeSync(b, v, FALSE)
  \/ \E b \in Boundaries : HomeFetch(b, FALSE)
  \/ \E b \in Boundaries : Rerender(b, FALSE)
  \/ \E b \in Boundaries : Retry(b, FALSE)
  \/ \E p \in PromiseIds, o \in Outcomes : Settle(p, o)
  \/ \E p \in PromiseIds : Notify(p)

SpecUncached == Init /\ [][NextUncached]_vars

TypeOK ==
  /\ promiseCache \in [Keys -> PromiseIds \cup {NoPromise}]
  /\ status \in [PromiseIds -> {"untracked", "pending", "fulfilled", "rejected"}]
  /\ \A p \in PromiseIds : settled[p] \in {NotCreated, Pending} \cup Outcomes
  /\ \A b \in Boundaries : props[b] \in Streamable \cup {NoProps}
  /\ suspendedOn \in [Boundaries -> PromiseIds \cup {NoPromise}]

\* ------------------------------------------------------------- properties

IsCall == call.kind # "none"
SyncCall == IsCall /\ call.arg.tag = "value"
PromiseCall == IsCall /\ isPromise(call.arg)
Content(b) == display[b].shown \in {"empty", "grid"}

\* C1: a synchronous value v resolved under any key, in any cache state, is
\* returned by that same render attempt without suspending, and the boundary
\* shows the view of v, not its fallback.
C1_SyncReturnsWithoutSuspending ==
  SyncCall =>
    /\ call.kind = "return"
    /\ call.val = call.arg.val
    /\ call.used = NoPromise
    /\ suspendedOn[call.b] = NoPromise
    /\ display[call.b] = ProductListChildren(call.arg.val)

\* a synchronous value was resolved under a key that maps to a pending promise
C1_Witness ==
  /\ SyncCall
  /\ call.kind = "return"
  /\ promiseCache[call.key] # NoPromise
  /\ settled[promiseCache[call.key]].state = "pending"

\* C2 as stated: whatever was resolved under key k before, resolving a pending
\* p under k suspends, and the resumed resolution returns the value p fulfilled
\* with.
C2_SuspendsOnOwnPromiseForAnyHistory ==
  PromiseCall =>
    /\ settled[call.arg.p].state = "pending" => call.kind = "suspend"
    /\ (call.retry /\ settled[call.arg.p].state = "fulfilled") =>
          (call.kind = "return" /\ call.val = settled[call.arg.p].val)

\* C2 (amended): when key k has no cache entry, or its entry is p itself,
\* resolving p under k uses p: it suspends the boundary on p while p is
\* pending, and the resumed resolution after p fulfilled with v returns v.
C2_FirstWriterSuspendsThenReturns ==
  [][ (call'.kind # "none" /\ isPromise(call'.arg)
        /\ promiseCache[call'.key] \in {NoPromise, call'.arg.p}) =>
      /\ call'.used = call'.arg.p
      /\ settled'[call'.arg.p].state = "pending" =>
            /\ call'.kind = "suspend"
            /\ suspendedOn'[call'.b] = call'.arg.p
            /\ display'[call'.b] = ProductListSkeleton
      /\ (call'.retry /\ settled'[call'.arg.p].state = "fulfilled") =>
            /\ call'.kind = "return"
            /\ call'.val = settled'[call'.arg.p].val
            /\ display'[call'.b] = ProductListChildren(call'.val) ]_vars

\* a suspended render was resumed and returned the value of its own promise
C2_Witness ==
  /\ PromiseCall
  /\ call.retry
  /\ call.kind = "return"
  /\ call.used = call.arg.p
  /\ call.val = settled[call.arg.p].val

\* C3: a lookup for key k hands out the stored promise, the same instance the
\* previous lookup for k handed out, and the promise is stored (the "first
\* time" branch runs) at most once per key.
C3_GetOrCreateIdempotent ==
  [][ (call'.kind # "none" /\ isPromise(call'.arg)) =>
      /\ call'.used = promiseCache'[call'.key]
      /\ firstTime'[call'.key] <= 1
      /\ lookup[call'.key] # NoPromise =>
            /\ call'.used = lookup[call'.key]
            /\ firstTime' = firstTime ]_vars

\* a second lookup for a key, made with another promise, got the stored one
C3_Witness ==
  /\ PromiseCall
  /\ call.used # call.arg.p
  /\ call.used = promiseCache[call.key]
  /\ firstTime[call.key] = 1

\* C4: resolving synchronous values under a key allocates at most one promise
\* for that key however often it is repeated, and no such attempt suspends.
C4_StableUnderReconstruction ==
  /\ \A k \in Keys : wraps[k] <= 1
  /\ SyncCall => (call.kind # "suspend" /\ suspendedOn[call.b] = NoPromise)

\* two attempts under one key with different synchronous values, both shown
C4_Witness ==
  /\ SyncCall
  /\ queryKey["A"] = queryKey["B"]
  /\ props["A"].tag = "value" /\ props["B"].tag = "value"
  /\ props["A"].val # props["B"].val
  /\ wraps[call.key] = 0

\* C5: once the promise cached under k has rejected with E, resolving a promise
\* under k fails with exactly E, shown by the error boundary; the cache keeps
\* its entry, nothing is stored or allocated, and the promise passed is ignored.
C5_RejectionPropagatesWithoutRetry ==
  [][ (call'.kind # "none" /\ isPromise(call'.arg)
        /\ promiseCache[call'.key] # NoPromise
        /\ status[promiseCache[call'.key]] = "rejected") =>
      /\ call'.kind = "throw"
      /\ call'.err = settled[promiseCache[call'.key]].err
      /\ call'.err \in Errors
      /\ display'[call'.b] = ErrorView(call'.err)
      /\ call'.used = promiseCache[call'.key]
      /\ promiseCache' = promiseCache
      /\ firstTime' = firstTime
      /\ wraps' = wraps
      /\ status' = status ]_vars

\* a new promise was resolved under a key whose cached promise had rejected
C5_Witness ==
  /\ PromiseCall
  /\ ~call.retry
  /\ call.kind = "throw"
  /\ call.used # call.arg.p
  /\ display[call.b] = ErrorView(settled[call.used].err)

\* C7 as stated: successive synchronous values under one key leave the
\* boundary's output as the first one established it.
C7_LaterSyncValuesIgnored ==
  [][ (call'.kind # "none" /\ call'.arg.tag = "value"
        /\ props[call'.b].tag = "value"
        /\ display[call'.b].shown \in {"empty", "grid"}) =>
      display'[call'.b] = display[call'.b] ]_vars

\* C7 (amended): every attempt with a synchronous value shows the view of the
\* value passed on that attempt, so the output changes when the value does.
C7_LatestSyncValueShown ==
  [][ (call'.kind # "none" /\ call'.arg.tag = "value") =>
      /\ display'[call'.b] = ProductListChildren(call'.arg.val)
      /\ (props[call'.b].tag = "value" /\ props[call'.b].val # call'.arg.val) =>
            display'[call'.b] # display[call'.b] ]_vars

\* two boundaries under one key show the views of two different values
C7_Witness ==
  /\ queryKey["A"] = queryKey["B"]
  /\ props["A"].tag = "value" /\ props["B"].tag = "value"
  /\ display["A"] = ProductListChildren(props["A"].val)
  /\ display["B"] = ProductListChildren(props["B"].val)
  /\ display["A"] # display["B"]

C9_FallbackWhileOwnValueUnresolved ==
  \A b \in Boundaries :
    (isPromise(props[b]) /\ settled[props[b].p].state = "pending") =>
      display[b] = ProductListSkeleton

\* C9 (amended): a boundary whose value is a promise shows its fallback in
\* every state where the promise cached under its key is unresolved, shows
\* nothing but the fallback, the view of that promise's value or its error,
\* and once it shows the resolved view it keeps showing that view.
C9_FallbackThenResolvedViewOnce ==
  /\ [](\A b \in Boundaries : isPromise(props[b]) =>
         LET q == promiseCache[queryKey[b]] IN
         /\ q # NoPromise
         /\ settled[q].state = "pending" => display[b] = ProductListSkeleton
         /\ Content(b) =>
               (settled[q].state = "fulfilled"
                 /\ display[b] = ProductListChildren(settled[q].val))
         /\ display[b].shown \in {"fallback", "empty", "grid", "error"})
  /\ [][ \A b \in Boundaries :
           (isPromise(props[b]) /\ isPromise(props'[b]) /\ Content(b)) =>
             display'[b] = display[b] ]_vars

\* a boundary showing the resolved view rendered again with a promise that is
\* still pending, and kept the view
C9_Witness ==
  /\ PromiseCall
  /\ ~call.retry
  /\ call.kind = "return"
  /\ settled[call.arg.p].state = "pending"
  /\ Content(call.b)

\* C10: with the uncached variant every attempt with a synchronous value
\* allocates a promise that did not exist before and suspends on it, a boundary
\* over a synchronous value never shows the resolved view, and once the new
\* promise is seen settled the boundary is retried again.
C10_UncachedNeverStabilizes ==
  /\ [](\A b \in Boundaries : props[b].tag = "value" =>
         /\ display[b] = ProductListSkeleton
         /\ suspendedOn[b] # NoPromise
         /\ (status[suspendedOn[b]] = "fulfilled" /\ FreeIds(settled) # {}) =>
               ENABLED Retry(b, FALSE))
  /\ [][ (call'.kind # "none" /\ call'.arg.tag = "value") =>
          /\ call'.kind = "suspend"
          /\ settled[call'.used].state = "none"
          /\ settled'[call'.used] = Fulfilled(call'.arg.val)
          /\ wraps'[call'.key] = wraps[call'.key] + 1 ]_vars

\* a retried attempt with a synchronous value suspended again on a second promise
C10_Witness ==
  /\ SyncCall
  /\ call.retry
  /\ call.kind = "suspend"
  /\ wraps[call.key] >= 2
  /\ display[call.b] = ProductListSkeleton

\* C11: a key maps to at most one promise, and once key k maps to a promise it
\* maps to that same promise in every later state: no step replaces or removes
\* an entry.
C11_EntryNeverReplacedNorEvicted ==
  /\ [](promiseCache \in [Keys -> PromiseIds \cup {NoPromise}])
  /\ [][ \A k \in Keys :
           promiseCache[k] # NoPromise => promiseCache'[k] = promiseCache[k] ]_vars

\* an entry outlived its settlement and a call that passed another promise
C11_Witness ==
  /\ PromiseCall
  /\ call.kind = "return"
  /\ promiseCache[call.key] # NoPromise
  /\ promiseCache[call.key] # call.arg.p
  /\ settled[promiseCache[call.key]].state = "fulfilled"
  /\ settled[call.arg.p].state # "none"

\* C12: resolving a synchronous value leaves the promise cache, the promises
\* and what the renderer tracks exactly as they were, allocates nothing, and
\* its result is the value passed, not a cached one.
C12_SyncCallTouchesNoCache ==
  [][ (call'.kind # "none" /\ call'.arg.tag = "value") =>
      /\ promiseCache' = promiseCache
      /\ settled' = settled
      /\ status' = status
      /\ firstTime' = firstTime
      /\ wraps' = wraps
      /\ lookup' = lookup
      /\ call'.used = NoPromise
      /\ call'.val = call'.arg.val ]_vars

\* a synchronous value resolved under a key whose cached promise holds another value
C12_Witness ==
  /\ SyncCall
  /\ promiseCache[call.key] # NoPromise
  /\ status[promiseCache[call.key]] = "fulfilled"
  /\ settled[promiseCache[call.key]].val # call.val

\* C13: a call under key k leaves the entry, the lookup and the log of every
\* other key unchanged, and its outcome is decided by k's own entry alone: it
\* uses k's entry (the promise passed when k has none) and returns, throws or
\* suspends as that promise stands.
C13_KeysDoNotInterfere ==
  [][ call'.kind # "none" =>
      /\ \A k \in Keys \ {call'.key} :
            /\ promiseCache'[k] = promiseCache[k]
            /\ lookup'[k] = lookup[k]
            /\ firstTime'[k] = firstTime[k]
            /\ wraps'[k] = wraps[k]
      /\ isPromise(call'.arg) =>
            LET q == IF promiseCache[call'.key] = NoPromise THEN call'.arg.p
                     ELSE promiseCache[call'.key]
            IN  /\ call'.used = q
                /\ status[q] = "fulfilled" =>
                      (call'.kind = "return" /\ call'.val = settled[q].val)
                /\ status[q] = "rejected" =>
                      (call'.kind = "throw" /\ call'.err = settled[q].err)
                /\ status[q] \notin {"fulfilled", "rejected"} =>
                      call'.kind = "suspend" ]_vars

\* a promise suspended under one key while the other key's entry had settled
C13_Witness ==
  /\ PromiseCall
  /\ call.kind = "suspend"
  /\ \E k \in Keys \ {call.key} :
        /\ promiseCache[k] # NoPromise
        /\ status[promiseCache[k]] \in {"fulfilled", "rejected"}

\* C14: boundaries that resolve promises under one key all wait on the one
\* cached promise; the key gets one entry, stored once, and no promise is
\* allocated for it; once it settles they all show the same outcome.
C14_SameKeyAttemptsCollapse ==
  /\ \A k \in Keys : firstTime[k] <= 1 /\ wraps[k] = 0
  /\ \A b \in Boundaries :
        (isPromise(props[b]) /\ suspendedOn[b] # NoPromise) =>
          suspendedOn[b] = promiseCache[queryKey[b]]
  /\ \A b1, b2 \in Boundaries :
        ( /\ queryKey[b1] = queryKey[b2]
          /\ isPromise(props[b1]) /\ isPromise(props[b2])
          /\ display[b1].shown # "fallback" /\ display[b2].shown # "fallback" ) =>
        display[b1] = display[b2]

\* two boundaries under one key, given different promises, suspended together
C14_Witness ==
  /\ queryKey["A"] = queryKey["B"]
  /\ isPromise(props["A"]) /\ isPromise(props["B"])
  /\ props["A"].p # props["B"].p
  /\ suspendedOn["A"] # NoPromise
  /\ suspendedOn["A"] = suspendedOn["B"]
  /\ settled[suspendedOn["A"]].state = "pending"

\* C15 as stated: when a boundary suspended on one promise has since been
\* rendered with another promise, the settlement of the first changes nothing
\* the boundary shows.
C15_StaleSettlementIgnored ==
  [][ \A b \in Boundaries :
        ( /\ call'.kind # "none" /\ call'.b = b /\ call'.retry
          /\ isPromise(props[b])
          /\ suspendedOn[b] # props[b].p ) =>
        display'[b] = display[b] ]_vars

\* C15 (amended): a boundary rendered again with a synchronous value waits for
\* nothing and keeps showing that value; a boundary rendered again with another
\* promise under the same key keeps waiting on the cached promise, and the
\* resumed attempt shows the cached promise's outcome.
C15_StaleSettlementServesSameKey ==
  /\ \A b \in Boundaries :
        /\ props[b].tag = "value" =>
              (suspendedOn[b] = NoPromise
                /\ display[b] = ProductListChildren(props[b].val))
        /\ (isPromise(props[b]) /\ suspendedOn[b] # NoPromise) =>
              suspendedOn[b] = promiseCache[queryKey[b]]
  /\ (PromiseCall /\ call.retry) =>
        /\ call.used = promiseCache[call.key]
        /\ status[call.used] \in {"fulfilled", "rejected"}
        /\ call.kind = "return" =>
              display[call.b] = ProductListChildren(settled[call.used].val)
        /\ call.kind = "throw" =>
              display[call.b] = ErrorView(settled[call.used].err)

\* a resumed attempt showed the value of a promise other than the one passed
C15_Witness ==
  /\ PromiseCall
  /\ call.retry
  /\ call.kind = "return"
  /\ call.used # call.arg.p
  /\ display[call.b] = ProductListChildren(settled[call.used].val)

\* C16: a boundary waiting on a promise that has not settled shows its
\* fallback, no retry of it is enabled, and as long as it is given promises it
\* goes on showing the fallback: there is no timeout.
C16_NoTimeout ==
  /\ [](\A b \in Boundaries :
         (suspendedOn[b] # NoPromise /\ settled[suspendedOn[b]].state = "pending") =>
           /\ display[b] = ProductListSkeleton
           /\ ~ENABLED Retry(b, TRUE))
  /\ [][ \A b \in Boundaries :
           ( /\ suspendedOn[b] # NoPromise
             /\ settled'[suspendedOn[b]].state = "pending"
             /\ isPromise(props'[b]) ) =>
           (display'[b] = ProductListSkeleton /\ suspendedOn'[b] = suspendedOn[b]) ]_vars

\* a boundary rendered again while the promise it waits on was still pending
C16_Witness ==
  /\ PromiseCall
  /\ ~call.retry
  /\ call.kind = "suspend"
  /\ call.used # call.arg.p
  /\ settled[call.used].state = "pending"
  /\ display[call.b] = ProductListSkeleton

\* C17: a resolved list is shown as the empty state exactly when its length is
\* 0 and otherwise as a grid with one card per product, in order; a resumed
\* attempt replaces the skeleton by that view.
C17_EmptyStateIffNoProducts ==
  /\ [](( IsCall /\ call.kind = "return") =>
         /\ display[call.b].shown = "empty" <=> Len(call.val) = 0
         /\ Len(call.val) > 0 =>
               /\ display[call.b].shown = "grid"
               /\ Len(display[call.b].cards) = Len(call.val)
               /\ \A i \in 1..Len(call.val) : display[call.b].cards[i] = call.val[i])
  /\ [][ (call'.kind = "return" /\ call'.retry) =>
          /\ display[call'.b] = ProductListSkeleton
          /\ display'[call'.b] = ProductListChildren(call'.val) ]_vars

\* a promise resolved to an empty list after the skeleton was shown
C17_Witness ==
  /\ PromiseCall
  /\ call.retry
  /\ call.kind = "return"
  /\ Len(call.val) = 0
  /\ display[call.b] = ProductListEmptyState

\* C18: a promise passed under a key with no entry becomes the entry; a
\* promise passed under a key that has another entry is not stored and not
\* tracked, the boundary does not wait on it, and the call suspends, returns
\* or throws as the entry stands.
C18_FirstWriterWins ==
  [][ (call'.kind # "none" /\ isPromise(call'.arg)) =>
      LET k == call'.key
          p2 == call'.arg.p
          e == promiseCache[k]
      IN  /\ e = NoPromise => promiseCache'[k] = p2
          /\ (e # NoPromise /\ e # p2) =>
                /\ promiseCache'[k] = e
                /\ \A k2 \in Keys : promiseCache'[k2] # p2
                /\ status'[p2] = "untracked"
                /\ suspendedOn'[call'.b] # p2
                /\ call'.used = e
                /\ call'.kind = "suspend" <=> settled'[e].state = "pending"
                /\ call'.kind = "return" =>
                      (settled'[e].state = "fulfilled" /\ call'.val = settled'[e].val)
                /\ call'.kind = "throw" =>
                      (settled'[e].state = "rejected" /\ call'.err = settled'[e].err) ]_vars

\* a second promise passed under a key was left untracked while its boundary
\* waits on the first
C18_Witness ==
  /\ PromiseCall
  /\ call.kind = "suspend"
  /\ call.used # call.arg.p
  /\ status[call.arg.p] = "untracked"
  /\ suspendedOn[call.b] = promiseCache[call.key]

\* C19: once the promise cached under k is seen rejected with E, it stays the
\* entry of k and stays rejected with E, and every call that passes a promise
\* under k throws E.
C19_RejectionSticky ==
  /\ [][ \A k \in Keys :
           (promiseCache[k] # NoPromise /\ status[promiseCache[k]] = "rejected") =>
             /\ promiseCache'[k] = promiseCache[k]
             /\ status'[promiseCache[k]] = "rejected"
             /\ settled'[promiseCache[k]] = settled[promiseCache[k]]
             /\ (call'.kind # "none" /\ call'.key = k /\ isPromise(call'.arg)) =>
                   /\ call'.kind = "throw"
                   /\ call'.err = settled[promiseCache[k]].err ]_vars

\* a promise that itself fulfilled was resolved under a key whose entry had
\* rejected, and the call threw
C19_Witness ==
  /\ PromiseCall
  /\ call.kind = "throw"
  /\ settled[call.arg.p].state = "fulfilled"
  /\ display[call.b] = ErrorView(settled[promiseCache[call.key]].err)

====
